---- MODULE Spec2Model ----
(***************************************************************************)
(* Model of the NITF metadata decoder of ossim_oxide                       *)
(* (src/src/model/nitf/mod.rs): NITF::new, NITF::parse_header and the four *)
(* subheader parsers.                                                      *)
(*                                                                         *)
(* The byte buffer is a TLA+ string, one character per byte.  Rust's       *)
(* 0-based half-open slice nitf[a..b] is Slice(nitf, a, b).  The buffers   *)
(* hold ASCII bytes only, on which String::from_utf8 is Ok and keeps the   *)
(* bytes.  A panic (slice out of range, integer overflow,                  *)
(* parse().unwrap(), get(..).unwrap()) ends the decode; its cause is kept  *)
(* in the state.                                                           *)
(***************************************************************************)
EXTENDS Integers, Sequences, FiniteSets, TLC

(***************************************************************************)
(* Bounds of the model                                                     *)
(***************************************************************************)
\* Largest total number of segments an input header declares.
MaxSeg == 2
\* Largest number of entries in one TLV block of an input header.
MaxTlv == 2

(***************************************************************************)
(* Bytes and strings                                                       *)
(***************************************************************************)
\* The printable ASCII characters 0x20..0x5A, in byte order.
Ascii == " !\"#$%&'()*+,-./0123456789:;<=>?@ABCDEFGHIJKLMNOPQRSTUVWXYZ"

Char(s, i) == SubSeq(s, i, i)

\* u8 value of a byte of the buffer.
ByteTable ==
    [c \in {Char(Ascii, i) : i \in 1..Len(Ascii)} |->
        31 + (CHOOSE i \in 1..Len(Ascii) : Char(Ascii, i) = c)]

ByteOf(c) == ByteTable[c]

\* nitf[a..b]
Slice(buf, a, b) == SubSeq(buf, a + 1, b)

\* s from its first byte that is not a blank.
TrimStart(s) ==
    IF \A i \in 1..Len(s) : Char(s, i) = " " THEN ""
    ELSE SubSeq(s, CHOOSE i \in 1..Len(s) :
                        Char(s, i) # " " /\ \A j \in 1..(i - 1) : Char(s, j) = " ",
                Len(s))

\* s up to its last byte that is not a blank: k counts from the end.
TrimEnd(s) ==
    IF \A i \in 1..Len(s) : Char(s, i) = " " THEN ""
    ELSE SubSeq(s, 1, Len(s) + 1 -
                      (CHOOSE k \in 1..Len(s) :
                          /\ Char(s, Len(s) + 1 - k) # " "
                          /\ \A j \in 1..(k - 1) : Char(s, Len(s) + 1 - j) = " "))

\* str::trim
Trim(s) == TrimEnd(TrimStart(s))

RECURSIVE Pow10(_)
Pow10(n) == IF n = 0 THEN 1 ELSE 10 * Pow10(n - 1)

\* The digit summation of parse_header:
\*   for (index, value) in bytes.iter().rev().enumerate()
\*       { sum += (*value as i32 - 48) * 10_i32.pow(index) }
RECURSIVE DigitSum(_)
DigitSum(s) ==
    IF Len(s) = 0 THEN 0
    ELSE (ByteOf(Char(s, 1)) - 48) * Pow10(Len(s) - 1) + DigitSum(SubSeq(s, 2, Len(s)))

IsDigit(c) == ByteOf(c) >= 48 /\ ByteOf(c) <= 57

RECURSIVE DecValue(_)
DecValue(s) ==
    IF Len(s) = 0 THEN 0
    ELSE 10 * DecValue(SubSeq(s, 1, Len(s) - 1)) + (ByteOf(Char(s, Len(s))) - 48)

\* str::parse::<usize>(): an optional leading '+', then one or more decimal
\* digits.  -1 stands for Err.
ParseUsize(s) ==
    LET body == IF Len(s) > 0 /\ Char(s, 1) = "+" THEN SubSeq(s, 2, Len(s)) ELSE s
    IN  IF Len(body) > 0 /\ \A i \in 1..Len(body) : IsDigit(Char(body, i))
        THEN DecValue(body)
        ELSE -1

RECURSIVE DecString(_)
DecString(n) ==
    IF n < 10 THEN Char("0123456789", n + 1)
    ELSE DecString(n \div 10) \o Char("0123456789", (n % 10) + 1)

RECURSIVE Rep(_, _)
Rep(c, n) ==
    IF n <= 0 THEN ""
    ELSE LET h == Rep(c, n \div 2)
         IN  IF n % 2 = 1 THEN h \o h \o c ELSE h \o h

\* format!("{:0w$}", n) for n >= 0
FmtW(n, w) == LET d == DecString(n) IN Rep("0", w - Len(d)) \o d

\* format!("{:02X}", b)
Hex2(b) == Char("0123456789ABCDEF", (b \div 16) + 1) \o Char("0123456789ABCDEF", (b % 16) + 1)

(***************************************************************************)
(* BTreeMap<String,String>                                                 *)
(***************************************************************************)
EmptyMap == << >>

\* BTreeMap::insert: a later insert of the same key replaces the value.
Put(m, k, v) == (k :> v) @@ m

(***************************************************************************)
(* Fixed-width field runs                                                  *)
(***************************************************************************)
\* The panic of the slice nitf[a..b] with a <= b, or "none".
ReadPanic(buf, a, b) == IF b > Len(buf) THEN "slice_oob" ELSE "none"

\* The byte ranges (relative to the cursor) a field of kind `kind` and width
\* w reads, in the order the code reads them.
FieldRanges(kind, w) ==
    CASE kind = "datetime" -> <<<<0, 4>>, <<4, 6>>, <<6, 8>>, <<8, 10>>, <<10, 12>>, <<12, 14>>>>
      [] kind \in {"opt_date", "opt_date_trim"} -> <<<<0, 8>>, <<0, 4>>, <<4, 6>>, <<6, 8>>>>
      [] kind = "hex" -> <<<<0, 1>>, <<1, 2>>, <<2, 3>>>>
      [] OTHER -> <<<<0, w>>>>

RECURSIVE FirstPanic(_, _, _, _)
FirstPanic(buf, cur, ranges, i) ==
    IF i > Len(ranges) THEN "none"
    ELSE LET p == ReadPanic(buf, cur + ranges[i][1], cur + ranges[i][2])
         IN  IF p # "none" THEN p ELSE FirstPanic(buf, cur, ranges, i + 1)

Date3(buf, c) ==
    Slice(buf, c, c + 4) \o "/" \o Slice(buf, c + 4, c + 6) \o "/" \o Slice(buf, c + 6, c + 8)

DateTime(buf, c) ==
    Date3(buf, c) \o " " \o Slice(buf, c + 8, c + 10) \o ":" \o
    Slice(buf, c + 10, c + 12) \o ":" \o Slice(buf, c + 12, c + 14)

\* True when the field is inserted: the fields read under
\*   if !String::from_utf8(..).unwrap().trim().to_string().is_empty()
\* are inserted only when the slot is not blank.
FieldPresent(buf, c, kind, w) ==
    IF kind \in {"opt_trim", "opt_raw", "opt_date", "opt_date_trim"}
    THEN Trim(Slice(buf, c, c + w)) # ""
    ELSE TRUE

\* The value stored for a field of kind `kind`.
FieldValue(buf, c, kind, w) ==
    CASE kind \in {"raw", "opt_raw"} -> Slice(buf, c, c + w)
      [] kind \in {"trim", "opt_trim"} -> Trim(Slice(buf, c, c + w))
      [] kind = "datetime" -> DateTime(buf, c)
      [] kind = "opt_date" -> Date3(buf, c)
      [] kind = "opt_date_trim" -> Trim(Date3(buf, c))
      [] kind = "hex" ->
            "0x" \o Hex2(ByteOf(Char(buf, c + 1))) \o Hex2(ByteOf(Char(buf, c + 2)))
                 \o Hex2(ByteOf(Char(buf, c + 3)))

F(key, w, kind) == [key |-> key, w |-> w, kind |-> kind]

\* parse_header, from FHDR to HL.
HeaderFields == <<
    F("FHDR", 4, "raw"), F("FVER", 5, "raw"), F("CLEVEL", 2, "raw"),
    F("STYPE", 4, "raw"), F("OSTAID", 10, "trim"), F("FDT", 14, "datetime"),
    F("FTITLE", 80, "opt_trim"), F("FSCLAS", 1, "raw"), F("FSCLSY", 2, "opt_raw"),
    F("FSCODE", 11, "opt_trim"), F("FSCTLH", 2, "opt_trim"), F("FSREL", 20, "opt_trim"),
    F("FSDCTP", 2, "opt_trim"), F("FSDCDT", 8, "opt_date_trim"), F("FSDCXM", 4, "opt_trim"),
    F("FSDG", 1, "opt_trim"), F("FSDGDT", 8, "opt_date"), F("FSCLTX", 43, "opt_trim"),
    F("FSCATP", 1, "opt_raw"), F("FSCAUT", 40, "opt_trim"), F("FSCRSN", 1, "opt_raw"),
    F("FSSRDT", 8, "opt_date_trim"), F("FSCLTN", 15, "opt_trim"), F("FSCOP", 5, "trim"),
    F("FSCPYS", 5, "trim"), F("ENCRYP", 1, "trim"), F("FBKGC", 3, "hex"),
    F("ONAME", 24, "opt_trim"), F("OPHONE", 18, "opt_trim"), F("FL", 12, "raw"),
    F("HL", 6, "raw") >>

\* parse_image_subheader
ImageFields == <<
    F("IM", 2, "raw"), F("IID1", 10, "raw"), F("IDATIM", 14, "datetime"),
    F("TGTID", 17, "opt_trim"), F("IID2", 80, "opt_trim"), F("ISCLAS", 1, "raw"),
    F("ISCLSY", 2, "opt_trim"), F("ISCODE", 11, "opt_trim"), F("ISCTLH", 2, "opt_trim"),
    F("ISREL", 20, "opt_trim"), F("ISDCTP", 2, "opt_trim"), F("ISDCDT", 8, "opt_date_trim"),
    F("ISDCXM", 4, "opt_trim"), F("ISDG", 1, "opt_trim"), F("ISDGDT", 8, "opt_date_trim"),
    F("ISCLTX", 43, "opt_trim"), F("ISCATP", 1, "opt_trim"), F("ISCAUT", 40, "opt_trim"),
    F("ISCRSN", 1, "opt_trim"), F("ISSRDT", 8, "opt_date_trim"), F("ISCTLN", 15, "opt_trim") >>

\* parse_graphic_subheader
GraphicFields == << F("SY", 2, "raw"), F("SID", 10, "raw") >>

\* parse_text_subheader
TextFields == << F("TE", 2, "raw"), F("TEXTID", 7, "raw") >>

\* parse_data_ext_seg_subheader
DataExtFields == << F("DE", 2, "raw"), F("DESID", 25, "raw") >>

\* The result of a run of reads: the panic that ended it ("none" when it
\* returned), the cursor and the map at that point.
Res(p, c, m) == [panic |-> p, cursor |-> c, map |-> m]

\* Reads the field f at the cursor of r into the map of r.
ReadField(buf, f, r) ==
    LET c == r.cursor
        p == FirstPanic(buf, c, FieldRanges(f.kind, f.w), 1)
    IN  IF p # "none" THEN Res(p, c, r.map)
        ELSE Res("none", c + f.w,
                 IF FieldPresent(buf, c, f.kind, f.w)
                 THEN Put(r.map, f.key, FieldValue(buf, c, f.kind, f.w))
                 ELSE r.map)

\* Reads fields[lo..hi] in order, going on from r; a panic ends the run.
\* (The run is split in halves, the first half read before the second.)
RECURSIVE ReadFieldsRange(_, _, _, _, _)
ReadFieldsRange(buf, fields, lo, hi, r) ==
    IF r.panic # "none" \/ lo > hi THEN r
    ELSE IF lo = hi THEN ReadField(buf, fields[lo], r)
    ELSE LET mid == (lo + hi) \div 2
             left == ReadFieldsRange(buf, fields, lo, mid, r)
         IN  IF left.panic # "none" THEN left
             ELSE ReadFieldsRange(buf, fields, mid + 1, hi, left)

\* Reads fields[i..] in order from cursor c into map m.
ReadFields(buf, fields, i, c, m) ==
    ReadFieldsRange(buf, fields, i, Len(fields), Res("none", c, m))

parse_image_subheader(buf, offset) == ReadFields(buf, ImageFields, 1, offset, EmptyMap)
parse_graphic_subheader(buf, offset) == ReadFields(buf, GraphicFields, 1, offset, EmptyMap)
parse_text_subheader(buf, offset) == ReadFields(buf, TextFields, 1, offset, EmptyMap)
parse_data_ext_seg_subheader(buf, offset) == ReadFields(buf, DataExtFields, 1, offset, EmptyMap)

(***************************************************************************)
(* parse_header: the segment groups                                        *)
(***************************************************************************)
G(cnt, sh, shw, seg, segw) == [cnt |-> cnt, sh |-> sh, shw |-> shw, seg |-> seg, segw |-> segw]

ImageGroup    == G("NUMI",   "LISH",  6, "LI",  10)
GraphicGroup  == G("NUMS",   "LSSH",  4, "LS",  6)
TextGroup     == G("NUMT",   "LTSH",  4, "LT",  5)
DataExtGroup  == G("NUMDES", "LDSH",  4, "LD",  9)
ReservedGroup == G("NUMRES", "LRESH", 4, "LRE", 7)

\* format!("LISH{:03}", n)
SegKey(prefix, n) == prefix \o FmtW(n, 3)

\* One iteration: insert(sh{n}, ..); insert(seg{n}, ..); cursor += shw + segw
ReadSegLength(buf, g, n, r) ==
    LET c == r.cursor
        m == r.map
        p1 == ReadPanic(buf, c, c + g.shw)
        p2 == ReadPanic(buf, c + g.shw, c + g.shw + g.segw)
    IN  IF p1 # "none" THEN Res(p1, c, m)
        ELSE IF p2 # "none" THEN Res(p2, c, Put(m, SegKey(g.sh, n), Slice(buf, c, c + g.shw)))
        ELSE Res("none", c + g.shw + g.segw,
                 Put(Put(m, SegKey(g.sh, n), Slice(buf, c, c + g.shw)),
                     SegKey(g.seg, n), Slice(buf, c + g.shw, c + g.shw + g.segw)))

\* The iterations lo..hi in order, going on from r; a panic ends the loop.
\* (The range is split in halves, the first half run before the second.)
RECURSIVE ReadSegRange(_, _, _, _, _)
ReadSegRange(buf, g, lo, hi, r) ==
    IF r.panic # "none" \/ lo > hi THEN r
    ELSE IF lo = hi THEN ReadSegLength(buf, g, lo, r)
    ELSE LET mid == (lo + hi) \div 2
             left == ReadSegRange(buf, g, lo, mid, r)
         IN  IF left.panic # "none" THEN left
             ELSE ReadSegRange(buf, g, mid + 1, hi, left)

\* for n in 1..=num { insert(sh{n}, ..); insert(seg{n}, ..); cursor += shw + segw }
ReadSegLengths(buf, g, n, num, c, m) == ReadSegRange(buf, g, n, num, Res("none", c, m))

\* The 3-byte count is stored as text and, separately, summed digit by digit;
\* the summed value (an i32, possibly negative) bounds the loop.
ReadSegGroup(buf, g, r) ==
    IF r.panic # "none" THEN r
    ELSE LET c == r.cursor
             p == ReadPanic(buf, c, c + 3)
         IN  IF p # "none" THEN Res(p, c, r.map)
             ELSE ReadSegLengths(buf, g, 1, DigitSum(Slice(buf, c, c + 3)), c + 3,
                                 Put(r.map, g.cnt, Slice(buf, c, c + 3)))

\* NUMX, reserved for future use
ReadNumX(buf, r) ==
    IF r.panic # "none" THEN r
    ELSE ReadFields(buf, << F("NUMX", 3, "raw") >>, 1, r.cursor, r.map)

\* parse_header, from NUMI to the last LRE{n}.
ReadSegGroups(buf, c, m) ==
    ReadSegGroup(buf, ReservedGroup,
      ReadSegGroup(buf, DataExtGroup,
        ReadSegGroup(buf, TextGroup,
          ReadNumX(buf,
            ReadSegGroup(buf, GraphicGroup,
              ReadSegGroup(buf, ImageGroup, Res("none", c, m)))))))

(***************************************************************************)
(* parse_header: the TLV areas                                             *)
(***************************************************************************)
\* The state of a TLV loop: the panic that ended it or "none", the loop
\* counter i, the value of i before the last entry read, the map, and the
\* values of i at the start of the iterations made.
Tlv(p, i, last, m) == [panic |-> p, i |-> i, last |-> last, map |-> m, steps |-> << >>]

\* Mutant: a negative length reads nothing instead of panicking.
ValuePanicLenient(buf, a, length, checks) ==
    IF length < 0 THEN "none" ELSE ReadPanic(buf, a, a + length)

\* The panic of nitf[a .. a + length as usize] for the i32 `length`, or
\* "none".  A negative length casts to 2^64 - |length|: the addition
\* overflows when a >= |length| (a panic with overflow checks, else the end
\* wraps below the start), and otherwise the end is far past the buffer.
ValuePanic(buf, a, length, checks) ==
    IF length < 0
    THEN IF a >= -length
         THEN (IF checks THEN "add_overflow" ELSE "slice_order")
         ELSE "slice_oob"
    ELSE ReadPanic(buf, a, a + length)

\* while i < bound { tag; length; insert(tag, value.trim()); i += 11 + length }
\* unbounded: the bound wrapped to 2^64 - k, which no i reaches.
RECURSIVE TlvLoop(_, _, _, _, _, _, _, _)
TlvLoop(buf, c, i, last, bound, unbounded, checks, m) ==
    IF ~(unbounded \/ i < bound) THEN Tlv("none", i, last, m)
    ELSE LET pt == ReadPanic(buf, c + i, c + i + 6)
             tag == Slice(buf, c + i, c + i + 6)
             pl == IF c + i + 11 > Len(buf) THEN "slice_oob" ELSE "none"
             length == DigitSum(Slice(buf, c + i + 6, c + i + 11))
             pv == ValuePanic(buf, c + i + 11, length, checks)
             next == TlvLoop(buf, c, i + 11 + length, i, bound, unbounded, checks,
                             Put(m, tag, Trim(Slice(buf, c + i + 11, c + i + 11 + length))))
             r == IF pt # "none" THEN Tlv(pt, i, last, m)
                  ELSE IF pl # "none" THEN Tlv(pl, i + 6, last, m)
                  ELSE IF pv # "none" THEN Tlv(pv, i + 11, last, m)
                  ELSE next
         IN  [r EXCEPT !.steps = << i >> \o @]

\* What a TLV area leaves: the panic or "none", the cursor, the map, the
\* summed length field, whether the overflow field was read, and the loop
\* counter at the end of the loop with its value before the last entry.
Area(p, c, m, len, ofl, i, last) ==
    [panic |-> p, cursor |-> c, map |-> m, len |-> len, ofl |-> ofl, i |-> i, last |-> last,
     steps |-> << >>]

\* Mutant: the user-defined area bounded like the extended one.
UdhBoundMinusOfl(len) == len - 3

\* The loop bound of the user-defined header area: UDHDL.
UdhBound(len) == len

\* Mutant: the subtraction saturates at zero.
XhBoundSaturating(len) == IF len < 3 THEN 0 ELSE len - 3

\* The loop bound of the extended header area: XHDL - 3, below zero where
\* the usize subtraction underflows.
XhBound(len) == len - 3

\* Mutant: the area is entered whatever the length field says.
AreaEnteredAlways(len) == TRUE

\* if user_defined_header_data_length > 0 / if extended_header_data_length > 0
AreaEntered(len) == len > 0

\* User Defined Header Data Length, overflow field and TLV entries;
\* cursor = cursor + i afterwards.
ReadUdhArea(buf, c, m, checks) ==
    LET p == ReadPanic(buf, c, c + 5)
        len == DigitSum(Slice(buf, c, c + 5))
        m1 == Put(m, "UDHDL", Slice(buf, c, c + 5))
        po == ReadPanic(buf, c + 5, c + 8)
        m2 == Put(m1, "UDHOFL", Slice(buf, c + 5, c + 8))
        t == TlvLoop(buf, c + 8, 0, 0, UdhBound(len), FALSE, checks, m2)
    IN  IF p # "none" THEN Area(p, c, m, 0, FALSE, 0, 0)
        ELSE IF ~AreaEntered(len) THEN Area("none", c + 5, m1, len, FALSE, 0, 0)
        ELSE IF po # "none" THEN Area(po, c + 5, m1, len, FALSE, 0, 0)
        ELSE [Area(t.panic, IF t.panic = "none" THEN c + 8 + t.i ELSE c + 8,
                   t.map, len, TRUE, t.i, t.last) EXCEPT !.steps = t.steps]

\* Extended Header Data Length, overflow field and TLV entries.  The bound
\* `extended_header_data_length as usize - 3` underflows for a length of 1
\* or 2: a panic with overflow checks, a wrapped bound without.
ReadXhArea(buf, c, m, checks) ==
    LET p == ReadPanic(buf, c, c + 5)
        len == DigitSum(Slice(buf, c, c + 5))
        m1 == Put(m, "XHDL", Slice(buf, c, c + 5))
        po == ReadPanic(buf, c + 5, c + 8)
        m2 == Put(m1, "XHOFL", Trim(Slice(buf, c + 5, c + 8)))
        t == TlvLoop(buf, c + 8, 0, 0, XhBound(len), XhBound(len) < 0, checks, m2)
    IN  IF p # "none" THEN Area(p, c, m, 0, FALSE, 0, 0)
        ELSE IF ~AreaEntered(len) THEN Area("none", c + 5, m1, len, FALSE, 0, 0)
        ELSE IF po # "none" THEN Area(po, c + 5, m1, len, FALSE, 0, 0)
        ELSE IF XhBound(len) < 0 /\ checks
             THEN Area("sub_overflow", c + 8, m2, len, TRUE, 0, 0)
        ELSE [Area(t.panic, c + 8, t.map, len, TRUE, t.i, t.last) EXCEPT !.steps = t.steps]

(***************************************************************************)
(* NITF::new: the offsets                                                  *)
(***************************************************************************)
\* The segment kinds NITF::new decodes, in the order it walks them.
Kinds == << ImageGroup, GraphicGroup, TextGroup, DataExtGroup >>

\* file_header.get(key).unwrap().parse::<usize>().unwrap()
GetPanic(m, key) ==
    IF key \notin DOMAIN m THEN "missing_key"
    ELSE IF ParseUsize(m[key]) < 0 THEN "parse_int"
    ELSE "none"

GetUsize(m, key) == ParseUsize(m[key])

\* The result of resolving one kind: the panic or "none", the offsets pushed
\* and the running offset.
Off(p, offs, o) == [panic |-> p, offsets |-> offs, offset |-> o]

\* Mutant: the segment data length is left out of the running offset.
AdvanceSubheaderOnly(o, sh, seg) == o + sh

\* Mutant: the subheader length is left out of the running offset.
AdvanceSegmentOnly(o, sh, seg) == o + seg

\* offset += LISH{i} + LI{i}
Advance(o, sh, seg) == o + sh + seg

\* for i in 1..=num { offsets.push(offset); offset += sh{i} + seg{i} }
RECURSIVE PushOffsets(_, _, _, _, _, _)
PushOffsets(fh, g, i, num, offs, o) ==
    IF i > num THEN Off("none", offs, o)
    ELSE LET p1 == GetPanic(fh, SegKey(g.sh, i))
             p2 == GetPanic(fh, SegKey(g.seg, i))
         IN  IF p1 # "none" THEN Off(p1, Append(offs, o), o)
             ELSE IF p2 # "none" THEN Off(p2, Append(offs, o), o)
             ELSE PushOffsets(fh, g, i + 1, num, Append(offs, o),
                    Advance(o, GetUsize(fh, SegKey(g.sh, i)), GetUsize(fh, SegKey(g.seg, i))))

\* Mutant: the loop runs over 1..num, leaving the last segment out.
ResolveOffsetsExclusive(fh, g, start) ==
    LET p == GetPanic(fh, g.cnt)
    IN  IF p # "none" THEN Off(p, << >>, start)
        ELSE PushOffsets(fh, g, 1, GetUsize(fh, g.cnt) - 1, << >>, start)

\* let num = file_header.get("NUMI").unwrap().parse::<usize>().unwrap(); ...
ResolveOffsets(fh, g, start) ==
    LET p == GetPanic(fh, g.cnt)
    IN  IF p # "none" THEN Off(p, << >>, start)
        ELSE PushOffsets(fh, g, 1, GetUsize(fh, g.cnt), << >>, start)

\* The subheader parser of kind k.
ParseSubheader(k, buf, o) ==
    CASE k = 1 -> parse_image_subheader(buf, o)
      [] k = 2 -> parse_graphic_subheader(buf, o)
      [] k = 3 -> parse_text_subheader(buf, o)
      [] k = 4 -> parse_data_ext_seg_subheader(buf, o)

(***************************************************************************)
(* Input buffers                                                           *)
(***************************************************************************)
RECURSIVE ConcatRange(_, _, _)
ConcatRange(parts, lo, hi) ==
    IF lo > hi THEN ""
    ELSE IF lo = hi THEN parts[lo]
    ELSE ConcatRange(parts, lo, (lo + hi) \div 2) \o ConcatRange(parts, (lo + hi) \div 2 + 1, hi)

\* parts[i] \o parts[i + 1] \o ...
Concat(parts, i) == ConcatRange(parts, i, Len(parts))

\* The content of one header slot of width w.
Fill(style, key, w) ==
    CASE style = "blank" -> Rep(" ", w)
      [] style = "padded" -> (IF w >= 3 THEN " " \o Rep("B", w - 2) \o " " ELSE Rep("B", w))
      [] OTHER -> Rep("A", w)

Styles == {"full", "blank", "padded"}

\* The header bytes before FL.
PrefixOf ==
    [style \in Styles |->
        Concat([i \in 1..(Len(HeaderFields) - 2) |->
                  Fill(style, HeaderFields[i].key, HeaderFields[i].w)], 1)]

Prefix(style) == PrefixOf[style]

\* Room for one image subheader and the strides of the segments after it.
BodyLen == 290 + 4 * (MaxSeg + 1)

\* The bytes after the file header, where the subheaders are read.
BodyOf ==
    [style \in Styles |->
        CASE style = "blank" -> Rep(" ", BodyLen)
          [] style = "padded" -> SubSeq(Rep("A BC  D", BodyLen \div 7 + 1), 1, BodyLen)
          [] OTHER -> SubSeq(Rep("ABCDEFG", BodyLen \div 7 + 1), 1, BodyLen)]

Body(style) == BodyOf[style]

\* The 3 bytes of a count field holding n.
CountField(cstyle, n) ==
    CASE cstyle = "plus" -> "+" \o FmtW(n, 2)
      [] cstyle = "space" -> " " \o FmtW(n, 2)
      [] cstyle = "slash" -> "0/" \o Char(Ascii, 27 + n)
      [] OTHER -> FmtW(n, 3)

\* The subheader and segment lengths of segment n of kind k.
SegLens(lens, k, n) ==
    CASE lens = "zero" -> << 0, 0 >>
      [] lens = "mixed" -> << n - 1, k - 1 >>
      [] OTHER -> << 2, 1 >>

AllGroups == << ImageGroup, GraphicGroup, TextGroup, DataExtGroup, ReservedGroup >>

GroupBytes(s, k) ==
    CountField(s.cstyle, s.counts[k]) \o
    Concat([n \in 1..s.counts[k] |->
              FmtW(SegLens(s.lens, k, n)[1], AllGroups[k].shw) \o
              FmtW(SegLens(s.lens, k, n)[2], AllGroups[k].segw)], 1)

TlvEntry(tag, val) == tag \o FmtW(Len(val), 5) \o val

SpecialEntry(special) ==
    CASE special = "blank" -> TlvEntry("BLANKS", "   ")
      [] special = "numdes" -> TlvEntry("NUMDES", "001")
      [] special = "neglen" -> "NEGLEN" \o "0000 "
      [] OTHER -> ""

TlvBlock(t) ==
    Concat([n \in 1..t.n |-> TlvEntry("TAG00" \o DecString(n), "V" \o DecString(n))], 1)
    \o SpecialEntry(t.special)

\* The declared length of a TLV area whose entries take `exact` bytes.
Declared(t, exact) ==
    CASE t.decl = "exact" -> exact
      [] t.decl = "short" -> exact - 1
      [] t.decl = "long" -> exact + 3
      [] t.decl = "one" -> 1
      [] t.decl = "two" -> 2
      [] t.decl = "three" -> 3
      [] OTHER -> 0

AreaBytes(t, ofl) ==
    LET d == Declared(t, Len(TlvBlock(t)) + ofl)
    IN  FmtW(d, 5) \o (IF d > 0 THEN "000" \o TlvBlock(t) ELSE "")

NoTlv == [n |-> 0, special |-> "none", decl |-> "zero"]

TlvOptions ==
    { [n |-> 0, special |-> "none", decl |-> d] : d \in {"zero", "one", "two", "three"} }
    \cup { [n |-> n, special |-> "none", decl |-> d] :
             n \in 1..MaxTlv, d \in {"exact", "short", "long"} }
    \cup { [n |-> MaxTlv - 1, special |-> sp, decl |-> d] :
             sp \in {"blank", "numdes", "neglen"}, d \in {"exact", "short"} }

\* The file header after HL.
HeaderTail(s) ==
    GroupBytes(s, 1) \o GroupBytes(s, 2) \o "000" \o GroupBytes(s, 3) \o
    GroupBytes(s, 4) \o GroupBytes(s, 5) \o AreaBytes(s.udh, 0) \o AreaBytes(s.xh, 3)

\* Where the file of header length hlen is cut short.
CutAt(cut, hlen) ==
    CASE cut = "fhdr" -> 3
      [] cut = "header" -> hlen - 2
      [] cut = "nobody" -> hlen
      [] cut = "body_short" -> hlen + 20
      [] cut = "body_long" -> hlen + 291
      [] OTHER -> hlen + BodyLen

\* The bytes read from the file.
Buffer(s) ==
    LET tail == HeaderTail(s)
        hlen == Len(Prefix(s.style)) + 12 + 6 + Len(tail)
        hl == IF s.hl = "auto" THEN FmtW(hlen, 6) ELSE s.hl
    IN  SubSeq(Prefix(s.style) \o FmtW(hlen + BodyLen, 12) \o hl \o tail \o Body(s.style),
               1, CutAt(s.cut, hlen))

RECURSIVE SumSeq(_, _)
SumSeq(q, i) == IF i > Len(q) THEN 0 ELSE q[i] + SumSeq(q, i + 1)

\* What each aspect of an input ranges over.
Aspects == [
    style  |-> Styles,
    hl     |-> {"auto", "000000", "00000A"},
    counts |-> { c \in [1..5 -> 0..MaxSeg] : SumSeq(c, 1) <= MaxSeg /\ c[5] = 0 }
               \cup { << 1, 0, 0, 0, 1 >> },
    cstyle |-> {"dec", "plus", "space", "slash"},
    lens   |-> {"stride", "zero", "mixed"},
    udh    |-> TlvOptions,
    xh     |-> TlvOptions,
    cut    |-> {"none", "fhdr", "header", "nobody", "body_short", "body_long"},
    checks |-> BOOLEAN ]

\* A well-formed file with one image segment, built with overflow checks.
Baseline == [
    style  |-> "full",
    hl     |-> "auto",
    counts |-> << 1, 0, 0, 0, 0 >>,
    cstyle |-> "dec",
    lens   |-> "stride",
    udh    |-> NoTlv,
    xh     |-> NoTlv,
    cut    |-> "none",
    checks |-> TRUE ]

\* The inputs: the baseline with at most two aspects changed.
Scenarios ==
    UNION { { [Baseline EXCEPT ![a] = v, ![b] = w] : v \in Aspects[a], w \in Aspects[b] } :
            a \in DOMAIN Aspects, b \in DOMAIN Aspects }

(***************************************************************************)
(* The decode as a state machine                                           *)
(***************************************************************************)
VARIABLES
    nitf,             \* the bytes read from the file
    overflow_checks,  \* whether the build panics on integer overflow
    run,              \* "first" or "second" decode of the same buffer
    first,            \* what the first decode ended with
    pc,               \* where NITF::new stands
    cursor,           \* parse_header: cursor
    file_header,      \* parse_header: file_header, then NITF::new: file_header
    udh,              \* parse_header: the user-defined area (summed length, whether the
                      \* overflow field was read, the loop counter i at the end and
                      \* before the last entry, the cursor at UDHDL, the panic or "none")
    xh,               \* parse_header: the same for the extended area
    kind,             \* NITF::new: the segment kind being resolved or decoded (1..4)
    offset,           \* NITF::new: offset
    offsets,          \* NITF::new: image_offsets, graphic_offsets, text_offsets, data_ext_offsets
    tasks,            \* the parallel for_each: per offset "ready", "sent" or the panic
    chan,             \* the channel: what was sent, in the order it was sent
    subheaders,       \* NITF::new: image_, graphic_, text_, data_ext_subheaders
    panic             \* the panic that ended the decode, or "none"

vars == << nitf, overflow_checks, run, first, pc, cursor, file_header, udh, xh, kind,
           offset, offsets, tasks, chan, subheaders, panic >>

NoArea == [len |-> 0, ofl |-> FALSE, i |-> 0, last |-> 0, start |-> 0, panic |-> "unread",
           steps |-> << >>]
NoOutcome == [status |-> "none"]

\* The locals of one decode before NITF::new starts.
Fresh ==
    /\ pc = "parse_fixed"
    /\ cursor = 0
    /\ file_header = EmptyMap
    /\ udh = NoArea
    /\ xh = NoArea
    /\ kind = 1
    /\ offset = 0
    /\ offsets = << << >>, << >>, << >>, << >> >>
    /\ tasks = << >>
    /\ chan = << >>
    /\ subheaders = << << >>, << >>, << >>, << >> >>
    /\ panic = "none"

Init ==
    /\ \E s \in Scenarios :
          /\ nitf = Buffer(s)
          /\ overflow_checks = s.checks
    /\ run = "first"
    /\ first = NoOutcome
    /\ Fresh

\* A panic unwinds out of NITF::new.
Panicked(cause) ==
    /\ pc' = "panicked"
    /\ panic' = cause

\* parse_header, FHDR to HL
ParseFixed ==
    /\ pc = "parse_fixed"
    /\ LET r == ReadFields(nitf, HeaderFields, 1, 0, EmptyMap)
       IN  IF r.panic # "none"
           THEN Panicked(r.panic) /\ UNCHANGED << cursor, file_header >>
           ELSE /\ pc' = "parse_groups"
                /\ cursor' = r.cursor
                /\ file_header' = r.map
                /\ UNCHANGED panic
    /\ UNCHANGED << nitf, overflow_checks, run, first, udh, xh, kind, offset, offsets,
                    tasks, chan, subheaders >>

\* parse_header, NUMI to the last LRE{n}
ParseGroups ==
    /\ pc = "parse_groups"
    /\ LET r == ReadSegGroups(nitf, cursor, file_header)
       IN  IF r.panic # "none"
           THEN Panicked(r.panic) /\ UNCHANGED << cursor, file_header >>
           ELSE /\ pc' = "parse_udh"
                /\ cursor' = r.cursor
                /\ file_header' = r.map
                /\ UNCHANGED panic
    /\ UNCHANGED << nitf, overflow_checks, run, first, udh, xh, kind, offset, offsets,
                    tasks, chan, subheaders >>

\* parse_header, the user-defined header area
ParseUdh ==
    /\ pc = "parse_udh"
    /\ LET r == ReadUdhArea(nitf, cursor, file_header, overflow_checks)
       IN  /\ udh' = [len |-> r.len, ofl |-> r.ofl, i |-> r.i, last |-> r.last,
                      start |-> cursor, panic |-> r.panic, steps |-> r.steps]
           /\ IF r.panic # "none"
              THEN Panicked(r.panic) /\ UNCHANGED << cursor, file_header >>
              ELSE /\ pc' = "parse_xh"
                   /\ cursor' = r.cursor
                   /\ file_header' = r.map
                   /\ UNCHANGED panic
    /\ UNCHANGED << nitf, overflow_checks, run, first, xh, kind, offset, offsets,
                    tasks, chan, subheaders >>

\* parse_header, the extended header area, and Ok(file_header)
ParseXh ==
    /\ pc = "parse_xh"
    /\ LET r == ReadXhArea(nitf, cursor, file_header, overflow_checks)
       IN  /\ xh' = [len |-> r.len, ofl |-> r.ofl, i |-> r.i, last |-> r.last,
                     start |-> cursor, panic |-> r.panic, steps |-> r.steps]
           /\ IF r.panic # "none"
              THEN Panicked(r.panic) /\ UNCHANGED << cursor, file_header >>
              ELSE /\ pc' = "read_hl"
                   /\ cursor' = r.cursor
                   /\ file_header' = r.map
                   /\ UNCHANGED panic
    /\ UNCHANGED << nitf, overflow_checks, run, first, udh, kind, offset, offsets,
                    tasks, chan, subheaders >>

\* let mut offset = file_header.get("HL").unwrap().parse::<usize>().unwrap();
ReadHl ==
    /\ pc = "read_hl"
    /\ IF GetPanic(file_header, "HL") # "none"
       THEN Panicked(GetPanic(file_header, "HL")) /\ UNCHANGED offset
       ELSE /\ pc' = "resolve"
            /\ offset' = GetUsize(file_header, "HL")
            /\ UNCHANGED panic
    /\ UNCHANGED << nitf, overflow_checks, run, first, cursor, file_header, udh, xh, kind,
                    offsets, tasks, chan, subheaders >>

\* The offsets of the segments of the current kind, and the channel and the
\* parallel iterator over them.
Resolve ==
    /\ pc = "resolve"
    /\ LET r == ResolveOffsets(file_header, Kinds[kind], offset)
       IN  IF r.panic # "none"
           THEN Panicked(r.panic) /\ UNCHANGED << offset, offsets, tasks, chan >>
           ELSE /\ pc' = "decode"
                /\ offset' = r.offset
                /\ offsets' = [offsets EXCEPT ![kind] = r.offsets]
                /\ tasks' = [i \in 1..Len(r.offsets) |-> "ready"]
                /\ chan' = << >>
                /\ UNCHANGED panic
    /\ UNCHANGED << nitf, overflow_checks, run, first, cursor, file_header, udh, xh, kind,
                    subheaders >>

\* One closure of for_each_with:
\*   s.send(NITF::parse_image_subheader(&nitf, offset).unwrap()).unwrap()
Task(i) ==
    /\ pc = "decode"
    /\ tasks[i] = "ready"
    /\ LET r == ParseSubheader(kind, nitf, offsets[kind][i])
       IN  IF r.panic # "none"
           THEN /\ tasks' = [tasks EXCEPT ![i] = r.panic]
                /\ UNCHANGED chan
           ELSE /\ tasks' = [tasks EXCEPT ![i] = "sent"]
                /\ chan' = Append(chan, r.map)
    /\ UNCHANGED << nitf, overflow_checks, run, first, pc, cursor, file_header, udh, xh,
                    kind, offset, offsets, subheaders, panic >>

\* A panic of a closure is resumed in the thread that called for_each_with;
\* closures that have not started may never run.
TaskPanic ==
    /\ pc = "decode"
    /\ \E i \in DOMAIN tasks :
          /\ tasks[i] \notin {"ready", "sent"}
          /\ Panicked(tasks[i])
    /\ UNCHANGED << nitf, overflow_checks, run, first, cursor, file_header, udh, xh, kind,
                    offset, offsets, tasks, chan, subheaders >>

\* Mutant: the receiver is drained before the last closure has sent.
CollectedBeforeLast(ch) == SubSeq(ch, 1, Len(ch) - 1)

\* let image_subheaders: Vec<_> = img_receiver.iter().collect();
Collected(ch) == ch

\* Mutant: for_each_with returns once no closure is left to run, a panic of
\* a closure being dropped.
AllFinished(t) == \A i \in DOMAIN t : t[i] # "ready"

\* for_each_with returns normally: every closure has run and sent its map.
AllSent(t) == \A i \in DOMAIN t : t[i] = "sent"

\* for_each_with has returned and the receiver is drained; the next kind
\* follows, and after the last one Ok(NITF { metadata }).
Collect ==
    /\ pc = "decode"
    /\ AllSent(tasks)
    /\ subheaders' = [subheaders EXCEPT ![kind] = Collected(chan)]
    /\ IF kind < Len(Kinds)
       THEN pc' = "resolve" /\ kind' = kind + 1
       ELSE pc' = "done" /\ UNCHANGED kind
    /\ UNCHANGED << nitf, overflow_checks, run, first, cursor, file_header, udh, xh,
                    offset, offsets, tasks, chan, panic >>

\* What a decode ended with: the record returned, or the panic.
Outcome ==
    IF pc = "done"
    THEN [status |-> "ok", file_header |-> file_header, subheaders |-> subheaders]
    ELSE [status |-> "panic", cause |-> panic]

\* The same buffer is decoded again, after a decode that returned a record.
DecodeAgain ==
    /\ pc = "done"
    /\ run = "first"
    /\ run' = "second"
    /\ first' = Outcome
    /\ pc' = "parse_fixed"
    /\ cursor' = 0
    /\ file_header' = EmptyMap
    /\ udh' = NoArea
    /\ xh' = NoArea
    /\ kind' = 1
    /\ offset' = 0
    /\ offsets' = << << >>, << >>, << >>, << >> >>
    /\ tasks' = << >>
    /\ chan' = << >>
    /\ subheaders' = << << >>, << >>, << >>, << >> >>
    /\ panic' = "none"
    /\ UNCHANGED << nitf, overflow_checks >>

Next ==
    \/ ParseFixed
    \/ ParseGroups
    \/ ParseUdh
    \/ ParseXh
    \/ ReadHl
    \/ Resolve
    \/ \E i \in DOMAIN tasks : Task(i)
    \/ TaskPanic
    \/ Collect
    \/ DecodeAgain

Spec == Init /\ [][Next]_vars

\* A step can be taken: the guards of the actions of Next.
CanStep ==
    \/ pc \in {"parse_fixed", "parse_groups", "parse_udh", "parse_xh", "read_hl", "resolve"}
    \/ /\ pc = "decode"
       /\ \/ \E i \in DOMAIN tasks : tasks[i] = "ready"
          \/ \E i \in DOMAIN tasks : tasks[i] \notin {"ready", "sent"}
          \/ AllSent(tasks)
    \/ pc = "done" /\ run = "first"

\* The thread that runs NITF::new keeps running, and rayon runs every
\* closure it was given or resumes the panic of one: a step that can be
\* taken is taken.  This is WF_vars(Next) with ENABLED <<Next>>_vars
\* written out as CanStep; a step of Spec that changes vars is a Next step.
FairSpec == Spec /\ ([]<>~CanStep \/ []<><<TRUE>>_vars)

(***************************************************************************)
(* Properties                                                              *)
(***************************************************************************)
\* The maps a returned record holds: the file header and every subheader.
ReturnedMaps ==
    {file_header} \cup UNION { { subheaders[k][j] : j \in 1..Len(subheaders[k]) } : k \in 1..4 }

\* The subheader length plus the segment length the header holds for
\* segment j of kind k.
SegTotal(k, j) ==
    ParseUsize(file_header[SegKey(Kinds[k].sh, j)]) +
    ParseUsize(file_header[SegKey(Kinds[k].seg, j)])

RECURSIVE KindTotal(_, _)
KindTotal(k, n) == IF n = 0 THEN 0 ELSE KindTotal(k, n - 1) + SegTotal(k, n)

RECURSIVE EarlierKinds(_)
EarlierKinds(k) ==
    IF k = 1 THEN 0 ELSE EarlierKinds(k - 1) + KindTotal(k - 1, Len(offsets[k - 1]))

\* The resolved offsets of all kinds, in the order image, graphic, text,
\* data extension, and the lengths the header holds for the same segments.
AllOffsets == offsets[1] \o offsets[2] \o offsets[3] \o offsets[4]

AllSegTotals ==
    [j \in 1..Len(offsets[1]) |-> SegTotal(1, j)] \o [j \in 1..Len(offsets[2]) |-> SegTotal(2, j)] \o
    [j \in 1..Len(offsets[3]) |-> SegTotal(3, j)] \o [j \in 1..Len(offsets[4]) |-> SegTotal(4, j)]

\* C1: in the record NITF::new returns, the k-th subheader of every kind is
\* the one decoded at the k-th resolved offset of that kind, whatever the
\* order in which the decode tasks sent their results.
C1_OutputInOffsetOrder ==
    pc = "done" =>
        \A k \in 1..4 :
            /\ Len(subheaders[k]) = Len(offsets[k])
            /\ \A j \in 1..Len(offsets[k]) :
                  subheaders[k][j] = ParseSubheader(k, nitf, offsets[k][j]).map

\* C2: a second decode of the same buffer that returns a record returns the
\* record the first decode returned.
C2_SameBufferSameResult ==
    (run = "second" /\ pc = "done" /\ first.status = "ok") => Outcome = first

\* C3: in a returned record the number of subheaders of each kind is the
\* integer value of the header's NUMI, NUMS, NUMT, NUMDES field.
C3_CountsMatch ==
    pc = "done" =>
        \A k \in 1..4 : Len(subheaders[k]) = ParseUsize(file_header[Kinds[k].cnt])

C3_Witness ==
    /\ pc = "done"
    /\ Len(subheaders[1]) = 1
    /\ Len(subheaders[4]) = 1
    /\ file_header["NUMI"] = "001"
    /\ file_header["NUMDES"] = "001"

\* C4: every resolved offset is the value of HL plus the subheader and
\* segment lengths of all segments before it, the kinds taken in the order
\* image, graphic, text, data extension.
C4_OffsetsChained ==
    \A k \in 1..4 : \A j \in 1..Len(offsets[k]) :
        offsets[k][j] = ParseUsize(file_header["HL"]) + EarlierKinds(k) + KindTotal(k, j - 1)

C4_Witness ==
    /\ Len(offsets[1]) = 1
    /\ Len(offsets[2]) = 1
    /\ offsets[1][1] = ParseUsize(file_header["HL"])
    /\ offsets[2][1] = offsets[1][1] + 3

\* C5 as stated: consecutive resolved offsets are strictly increasing, zero
\* lengths included.
C5_StrictlyIncreasing ==
    \A n \in 1..(Len(AllOffsets) - 1) : AllOffsets[n + 1] > AllOffsets[n]

\* C5 as amended: consecutive resolved offsets never decrease, and the next
\* one is greater exactly when the segment's subheader length plus segment
\* length is greater than zero.
C5_NonDecreasing ==
    \A n \in 1..(Len(AllOffsets) - 1) :
        /\ AllOffsets[n + 1] >= AllOffsets[n]
        /\ (AllOffsets[n + 1] > AllOffsets[n]) <=> (AllSegTotals[n] > 0)

C5_Witness ==
    /\ Len(AllOffsets) = 2
    /\ AllSegTotals[1] = 0
    /\ AllOffsets[2] = AllOffsets[1]

\* C6: a read that would extend past the end of the buffer does not end the
\* decode with a panic (it yields a TruncatedInput failure value instead).
C6_TruncationDoesNotPanic ==
    pc = "panicked" => panic # "slice_oob"

\* C7: a TLV loop that ends without failure has consumed exactly the
\* declared number of bytes: UDHDL for the user-defined area, XHDL - 3 for
\* the extended area.
C7_TlvConsumesExactly ==
    /\ (udh.ofl /\ udh.panic = "none") => udh.i = udh.len
    /\ (xh.ofl /\ xh.panic = "none") => xh.i = xh.len - 3

\* C8: in a returned record no key of the file header or of a subheader
\* maps to a value that is empty after trimming.
C8_NoEmptyValues ==
    pc = "done" => \A m \in ReturnedMaps : \A key \in DOMAIN m : Trim(m[key]) # ""

\* C9: a user-defined (extended) length field that sums to zero adds its own
\* key and nothing else, and the next field is read right after it; XHDL is
\* then the 5 bytes after UDHDL.  A length greater than zero has the
\* overflow field read and stored and the TLV entries read.
C9_Step ==
    /\ (pc = "parse_udh" /\ pc' = "parse_xh" /\ udh'.len = 0) =>
          /\ file_header' = Put(file_header, "UDHDL", Slice(nitf, cursor, cursor + 5))
          /\ cursor' = cursor + 5
    /\ (pc = "parse_xh" /\ pc' = "read_hl" /\ udh.len = 0) =>
          file_header'["XHDL"] = Slice(nitf, udh.start + 5, udh.start + 10)
    /\ (pc = "parse_xh" /\ pc' = "read_hl" /\ xh'.len = 0) =>
          file_header' = Put(file_header, "XHDL", Slice(nitf, cursor, cursor + 5))
    /\ (pc = "parse_udh" /\ pc' = "parse_xh" /\ udh'.len > 0) =>
          /\ udh'.ofl
          /\ file_header'["UDHOFL"] = Slice(nitf, cursor + 5, cursor + 8)
          /\ udh'.i >= 11
          /\ Slice(nitf, cursor + 8, cursor + 14) \in DOMAIN file_header'
    /\ (pc = "parse_xh" /\ pc' = "read_hl" /\ xh'.len > 0) =>
          /\ xh'.ofl
          /\ "XHOFL" \in DOMAIN file_header'
          /\ xh'.len > 3 =>
                /\ xh'.i >= 11
                /\ Slice(nitf, cursor + 8, cursor + 14) \in DOMAIN file_header'

\* C9: every step of the decode handles a zero and a non-zero length field
\* as C9_Step says.
C9_ZeroAndNonZero == [][C9_Step]_vars

C9_Witness ==
    /\ pc = "read_hl"
    /\ udh.len = 0
    /\ "UDHOFL" \notin DOMAIN file_header
    /\ xh.len > 3
    /\ "XHOFL" \in DOMAIN file_header
    /\ "TAG001" \in DOMAIN file_header

\* C10: the user-defined loop runs while fewer than UDHDL bytes of entries
\* are consumed, the extended loop while fewer than XHDL - 3 are; both start
\* at the byte after the 3-byte overflow field.
C10_LoopBounds ==
    /\ (udh.ofl /\ udh.panic = "none") =>
          /\ udh.last < udh.len
          /\ udh.i >= udh.len
          /\ cursor >= udh.start + 5 + 3 + udh.len
    /\ (xh.ofl /\ xh.panic = "none") =>
          \/ xh.len = 3 /\ xh.i = 0
          \/ xh.last < xh.len - 3 /\ xh.i >= xh.len - 3
    /\ (pc = "parse_xh" /\ udh.ofl) =>
          /\ file_header["UDHOFL"] = Slice(nitf, udh.start + 5, udh.start + 8)
          /\ Slice(nitf, udh.start + 8, udh.start + 14) \in DOMAIN file_header
          /\ cursor = udh.start + 8 + udh.i

C10_Witness ==
    /\ pc = "read_hl"
    /\ udh.ofl /\ udh.panic = "none" /\ udh.i = udh.len /\ udh.i > 11
    /\ xh.ofl /\ xh.panic = "none" /\ xh.i = xh.len - 3 /\ xh.i > 11

\* C11: once a subheader decode has failed, NITF::new returns no record: the
\* decode stays where it is or ends in the panic, and a returned record
\* holds, for every kind, one subheader per resolved offset, each of them
\* decoded without failure.
C11_Step ==
    /\ (pc = "decode" /\ \E i \in DOMAIN tasks : tasks[i] \notin {"ready", "sent"}) =>
          /\ pc' \in {"decode", "panicked"}
          /\ subheaders' = subheaders
    /\ pc' = "done" =>
          \A k \in 1..4 :
              /\ Len(subheaders'[k]) = Len(offsets'[k])
              /\ \A j \in 1..Len(offsets'[k]) :
                    ParseSubheader(k, nitf', offsets'[k][j]).panic = "none"

\* C11: no step of the decode returns a record after a failed subheader
\* decode, as C11_Step says.
C11_FailFast == [][C11_Step]_vars

C11_Witness ==
    /\ pc = "panicked"
    /\ Len(chan) >= 1
    /\ \E i \in DOMAIN tasks : tasks[i] = "slice_oob"

\* The offset list of kind k has been resolved.
Resolved(k) == k < kind \/ (k = kind /\ pc \in {"decode", "done"})

\* A subheader decode of the current kind has started.
DecodeStarted == pc = "decode" /\ \E i \in DOMAIN tasks : tasks[i] # "ready"

\* The file header, both TLV areas included, has been decoded.
HeaderDecoded ==
    /\ udh.panic = "none"
    /\ xh.panic = "none"
    /\ {"FHDR", "HL", "NUMI", "NUMRES", "UDHDL", "XHDL"} \subseteq DOMAIN file_header

\* C12 as stated: the file header is decoded before any offset is resolved,
\* and the offset lists of all four kinds are resolved before any subheader
\* decode starts.
C12_AllResolvedBeforeAnyDecode ==
    /\ pc \in {"resolve", "decode", "done"} => HeaderDecoded
    /\ DecodeStarted => \A k \in 1..4 : Resolved(k)

\* C12 as amended: the file header is decoded before any offset is
\* resolved; the kinds are handled one after the other, and when a subheader
\* decode of a kind starts the offsets of that kind and of the kinds before
\* it are resolved and the subheaders of the kinds before it are all
\* collected, while the offsets of the kinds after it are not resolved yet.
C12_ResolvedPerKind ==
    /\ pc \in {"resolve", "decode", "done"} => HeaderDecoded
    /\ DecodeStarted =>
          /\ Len(tasks) = Len(offsets[kind])
          /\ Len(offsets[kind]) = ParseUsize(file_header[Kinds[kind].cnt])
          /\ \A k \in 1..4 :
                /\ k <= kind => Resolved(k)
                /\ k < kind => Len(subheaders[k]) = Len(offsets[k])
                /\ k > kind => ~Resolved(k) /\ offsets[k] = << >> /\ subheaders[k] = << >>

C12_Witness ==
    /\ pc = "decode"
    /\ kind = 1
    /\ tasks = << "sent" >>
    /\ file_header["NUMS"] = "001"
    /\ offsets[2] = << >>

\* Every byte of s is a decimal digit.
AllDigits(s) == \A i \in 1..Len(s) : IsDigit(Char(s, i))

\* The keys of the file header that hold a decimal count or length.
DecimalKeys ==
    {"HL", "NUMI", "NUMS", "NUMT", "NUMDES", "NUMRES", "UDHDL", "XHDL"}
    \cup UNION { { SegKey(AllGroups[k].sh, n), SegKey(AllGroups[k].seg, n) } :
                 k \in 1..5, n \in 1..(MaxSeg + 1) }

\* C13: a decimal count or length field that holds a non-digit byte is
\* never taken as a number and the decode never goes on past it: no decode
\* that goes on or returns a record holds such a field.
C13_NonDigitCountFails ==
    pc \notin {"parse_fixed", "panicked"} =>
        \A key \in DecimalKeys \cap DOMAIN file_header : AllDigits(file_header[key])

\* The file header map as read from the fixed-width slots, FHDR to the
\* last LRE{n}, before any TLV entry is decoded.
HeaderBeforeTlv ==
    LET f == ReadFields(nitf, HeaderFields, 1, 0, EmptyMap)
    IN  ReadSegGroups(nitf, f.cursor, f.map).map

\* C14: once the TLV areas are decoded, every fixed-field key of the file
\* header still maps to the value read from its fixed-width slot.
C14_TlvKeepsFixedFields ==
    pc \in {"parse_xh", "read_hl", "resolve", "decode", "done"} =>
        \A key \in DOMAIN HeaderBeforeTlv : file_header[key] = HeaderBeforeTlv[key]

\* C15: when parse_header has returned a map, the count NITF::new parses
\* from each stored count string is the count parse_header summed from its
\* digits, the length keys of every segment 1..count are in the map, and no
\* lookup of NITF::new fails on a missing key.
C15_ResolverKeysExist ==
    /\ pc \in {"read_hl", "resolve", "decode", "done"} =>
          \A k \in 1..4 :
              LET stored == file_header[Kinds[k].cnt]
              IN  ParseUsize(stored) >= 0 =>
                     /\ ParseUsize(stored) = DigitSum(stored)
                     /\ \A n \in 1..ParseUsize(stored) :
                           {SegKey(Kinds[k].sh, n), SegKey(Kinds[k].seg, n)}
                               \subseteq DOMAIN file_header
    /\ pc = "panicked" => panic # "missing_key"

\* The counter of a TLV loop grows by at least 11 from each iteration to
\* the next, and to its value at the end of a loop that ended without
\* panic.
StepsAdvance(a) ==
    /\ \A n \in 1..(Len(a.steps) - 1) : a.steps[n + 1] >= a.steps[n] + 11
    /\ (a.panic = "none" /\ Len(a.steps) > 0) =>
          /\ a.last = a.steps[Len(a.steps)]
          /\ a.i >= a.last + 11

\* C16: every decode ends, with a record or with a failure; every
\* iteration of a TLV loop advances the counter by at least 11.
C16_Terminates ==
    /\ [](StepsAdvance(udh) /\ StepsAdvance(xh))
    /\ (pc = "parse_fixed") ~> (pc \in {"done", "panicked"})

C16_Witness ==
    /\ pc = "done"
    /\ run = "second"
    /\ Len(udh.steps) >= 2
    /\ Len(subheaders[1]) >= 1

\* C17: when XHDL sums to 1 or 2, parse_header returns no map: the decode
\* ends in a panic, the subtraction overflow with overflow checks and the
\* panic of a slice of the never-ending loop without.
C17_ShortXhdlFails ==
    (xh.panic # "unread" /\ xh.len \in {1, 2}) =>
        /\ pc = "panicked"
        /\ xh.panic = panic
        /\ xh.ofl =>
              IF overflow_checks
              THEN panic = "sub_overflow"
              ELSE panic \in {"slice_oob", "slice_order"} /\ Len(xh.steps) >= 1

C17_Witness ==
    /\ pc = "panicked"
    /\ ~overflow_checks
    /\ xh.len \in {1, 2}
    /\ xh.ofl
    /\ Len(xh.steps) >= 1
    /\ panic = "slice_oob"

====
